---------------------------- MODULE Spec2Model ----------------------------
(***************************************************************************)
(* Model of the meal-plan worker: the polling scheduler and job lifecycle  *)
(* of JobProcessor (job-processor.ts), and the image de-duplication of     *)
(* MealPlanGenerator (meal-plan-generator.ts).                             *)
(*                                                                         *)
(* The worker is one Node.js process: code between two awaits runs as one  *)
(* atomic step, and the promise reactions chained on a settled promise     *)
(* (.catch/.finally) run as microtasks before any timer, signal or I/O     *)
(* callback.  Each action below is one such run-to-completion step.        *)
(***************************************************************************)
EXTENDS Integers, Sequences, FiniteSets, TLC

(***************************************************************************)
(* Bounds of the model.                                                    *)
(***************************************************************************)
\* Jobs the Job Source can hand out during one run.
NumJobs == 2
\* Largest configured concurrency limit explored (maxConcurrentJobs in 1..MaxLimit).
MaxLimit == 2
\* generateMealPlan calls that may overlap in the image model.
NumPlans == 2
\* Meals of one plan that get an image.
MaxMeals == 2
\* Distinct URLs the image search can return, and the longest result list.
NumUrls == 2
MaxResults == 2
\* Longest cheat-day list explored (besides the list covering a whole week).
MaxCheat == 2
\* Calorie-map derivations of one job.
MaxRuns == 2
\* Calendar days the clock can show (day 1 is the day the jobs were requested).
MaxToday == 2
\* Longest `days` array the provider returns (one more than a week).
MaxDays == 8

(***************************************************************************)
(* Program constants (milliseconds).                                       *)
(***************************************************************************)
\* index.ts: parseInt(process.env.POLL_INTERVAL_MS || '1000')
PollIntervalMs == 1000
\* gracefulShutdown: const shutdownTimeout = 300000
ShutdownTimeoutMs == 300000
\* gracefulShutdown: await this.sleep(5000)
DrainPollMs == 5000

\* getCurrentWeekDates: Array.from({ length: 7 }, ...)
WeekLength == 7
\* generateMealPlanWithAI: userProfile.calorieGoal || 2000
DefaultCalorieGoal == 2000

JobIds == 1..NumJobs
PlanIds == 1..NumPlans

UrlNames == <<"u1", "u2", "u3", "u4">>
Urls == {UrlNames[i] : i \in 1..NumUrls}

MealPlanKind == "meal_plan_generation"
OtherKind == "other_kind"
JobKinds == {MealPlanKind, OtherKind}

VARIABLES
    \* ---- JobProcessor ----
    maxConcurrentJobs,  \* config.maxConcurrentJobs
    isShuttingDown,     \* JobProcessor.isShuttingDown
    activeJobs,         \* key set of JobProcessor.activeJobs
    schedPc,            \* position of start(): "check", "claimWait", "sleep", "exited"
    sleepMs,            \* argument of the sleep start() is awaiting (0: none)
    lastClaim,          \* how the getNextJob of this iteration ended:
                        \* "none" (not yet), "job", "empty", "error", "exception"
    jobs,               \* per job: position of processJob and what it did so far
    drainPc,            \* position of gracefulShutdown: "idle", "sleeping", "done"
    drainElapsed,       \* Date.now() - startTime at the last drain-loop test
    stopped,            \* process.exit was called
    exitCode,           \* with this code (-1 while the process runs)
    logs                \* records gracefulShutdown wrote: "shutdown_timeout"

VARIABLES
    \* ---- MealPlanGenerator ----
    unsplashAccessKey,  \* an image-search credential is configured
    usedImageUrls,      \* the module-level Set of meal-plan-generator.ts
    plans               \* per generateMealPlan call: its position and its meals

VARIABLES
    \* ---- the collaborators during this run ----
    failingCalls,       \* the calls that fail whenever they are made, among
                        \* "heartbeat" "profile" "history" "images" "cards"
                        \* "notify" "complete" "fail"
    failMode            \* how they fail: "error" (error result) or "throws"

VARIABLES
    \* ---- the calorie-map derivation of generateMealPlanWithAI ----
    today,              \* the calendar day new Date() shows
    calJobs,            \* per job: userPreferences.cheatDays, the profile's
                        \* calorieGoal, and the derivations made for it
    aiDays,             \* aiGeneratedPlan.days as the provider returns it in
                        \* this run
    processedDays       \* per job: aiGeneratedPlan.days after post-processing,
                        \* one entry for each derivation that got that far

VARIABLES
    \* ---- index.ts: the process before the JobProcessor exists ----
    environ,            \* the credentials set in process.env
    bootPc,             \* "validating" (main has not run), "running", "exited"
    bootWarned          \* the missing image-search key was warned about

schedVars == <<maxConcurrentJobs, isShuttingDown, activeJobs, schedPc, sleepMs,
               lastClaim, jobs, drainPc, drainElapsed, stopped, exitCode, logs>>

imgVars == <<unsplashAccessKey, usedImageUrls, plans>>

envVars == <<failingCalls, failMode>>

\* What no step of JobProcessor itself changes: the generator's variables and
\* the behaviour of the collaborators.
calVars == <<today, calJobs, aiDays, processedDays>>

bootVars == <<environ, bootPc, bootWarned>>

genVars == <<imgVars, envVars, calVars, bootVars>>

vars == <<schedVars, imgVars, envVars, calVars, bootVars>>

(***************************************************************************)
(* A job as this worker sees it.                                           *)
(*   pc       "unclaimed", then the call processJob is awaiting:           *)
(*            "hb0" "profile" "history" "gen" "images" "cards" "save"      *)
(*            "notify" "complete" "failing", at last "settled"             *)
(*   hbTimer  the setInterval of processMealPlanJob is active              *)
(*   completes, fails   complete / fail reports issued to the Job Source   *)
(*   cause    p_error_message of the fail report ("" when none)            *)
(*   gen      the provider's answer to the plan request ("none": not yet)  *)
(*   saves    artifact writes issued; written: one of them succeeded       *)
(*   notifs   schedule_notification calls issued                           *)
(*   stages   the pipeline stages invoked for the job so far               *)
(*   logged   the failures of the job's calls that were written to the log *)
(*            ("heartbeat", "notification", "complete_report",             *)
(*            "fail_report")                                               *)
(*   trace    the calls made for the job, in the order they were issued:   *)
(*            "heartbeat", the stages, "complete" / "fail"                 *)
(*   lastBeat the call processJob was awaiting when the interval's         *)
(*            callback last issued a heartbeat ("": it never ran)          *)
(***************************************************************************)
NewJob == [pc |-> "unclaimed", kind |-> MealPlanKind, hbTimer |-> FALSE,
           completes |-> 0, fails |-> 0, cause |-> "", gen |-> "none",
           saves |-> 0, written |-> FALSE, notifs |-> 0, stages |-> {},
           logged |-> {}, trace |-> <<>>, lastBeat |-> ""]

(***************************************************************************)
(* One generateMealPlan call as the image model sees it.                   *)
(*   ipc    "idle", "images" (fetchMealImages is running), "done"          *)
(*   meals  the meals handled so far, each with its type, the image it got, *)
(*          `searched`: a request was sent to the image-search provider for *)
(*          it, and `alone`: the image the same search results give with a  *)
(*          used-images set of the call's own                               *)
(*   own    that set of the call's own (a shadow, not program state)       *)
(***************************************************************************)
NewPlan == [ipc |-> "idle", meals |-> <<>>, own |-> {}]

\* A job is in flight from the claim result until its execution settled.
InFlight(j) == jobs[j].pc \notin {"unclaimed", "settled"}

Unclaimed == {j \in JobIds : jobs[j].pc = "unclaimed"}

\* The Job Source hands out pending jobs in its own order: job ids are names
\* only, so the lowest unclaimed one stands for any.
NextPending == CHOOSE j \in Unclaimed : \A k \in Unclaimed : j <= k

\* The calls whose failure the code replaces by a default or only logs.
DegradableCalls == {"heartbeat", "profile", "history", "images", "cards", "notify",
                    "complete", "fail"}

\* Every call of the run succeeds, but for the calls whose result each action
\* draws itself (claim, plan request, artifact write).
CollaboratorsHealthy ==
    /\ failingCalls = {}
    /\ failMode = "error"

\* No calorie-map derivation is followed: the clock stands at day 1 and the
\* jobs carry no cheat days and no calorie goal.
CalIdle ==
    /\ today = 1
    /\ calJobs = [p \in PlanIds |-> [cheatDays |-> <<>>, calorieGoal |-> 0, runs |-> <<>>]]
    /\ aiDays = <<>>
    /\ processedDays = [p \in PlanIds |-> <<>>]

\* Mutant: the generative-provider key is not required.
RequiredEnvWithoutProviderKey == {"SUPABASE_URL", "SUPABASE_SERVICE_ROLE_KEY"}

\* validateEnvironment: const required = [...]
RequiredEnv == {"SUPABASE_URL", "SUPABASE_SERVICE_ROLE_KEY", "OPENAI_API_KEY"}
ImageKeyEnv == "UNSPLASH_ACCESS_KEY"
EnvNames == RequiredEnv \cup {ImageKeyEnv}

\* main() has run: the environment was accepted and the JobProcessor built
\* with the image-search key the environment holds.
Booted ==
    /\ bootPc = "running"
    /\ environ = IF unsplashAccessKey THEN EnvNames ELSE RequiredEnv
    /\ bootWarned = ~unsplashAccessKey

\* The generator at rest.
GenIdle ==
    /\ usedImageUrls = {}
    /\ plans = [p \in PlanIds |-> NewPlan]

WorkerInit ==
    /\ maxConcurrentJobs \in 1..MaxLimit
    /\ isShuttingDown = FALSE
    /\ activeJobs = {}
    /\ schedPc = "check"
    /\ sleepMs = 0
    /\ lastClaim = "none"
    /\ jobs = [j \in JobIds |-> NewJob]
    /\ drainPc = "idle"
    /\ drainElapsed = 0
    /\ stopped = FALSE
    /\ exitCode = -1
    /\ logs = {}

Init ==
    /\ WorkerInit
    /\ CollaboratorsHealthy
    /\ unsplashAccessKey = TRUE
    /\ GenIdle
    /\ CalIdle
    /\ Booted

(***************************************************************************)
(* start(): the polling loop.                                              *)
(***************************************************************************)
\* Mutant: the loop test forgets the shutdown flag.
LoopConditionIgnoresShutdown == TRUE

\* while (!this.isShuttingDown)
LoopCondition == ~isShuttingDown

\* Mutant: a claim is made only when nothing is in flight.
CanTakeMoreOnlyWhenIdle == activeJobs = {}

\* Mutant: off by one in the slot test.
CanTakeMoreOffByOne == Cardinality(activeJobs) <= maxConcurrentJobs

\* if (this.activeJobs.size < this.config.maxConcurrentJobs)
CanTakeMore == Cardinality(activeJobs) < maxConcurrentJobs

\* await this.sleep(ms) in start()
SchedSleep(ms) ==
    /\ schedPc' = "sleep"
    /\ sleepMs' = ms

\* Loop test fails: 'Job processor stopped', start() returns.
SchedExit ==
    /\ ~stopped
    /\ schedPc = "check"
    /\ ~LoopCondition
    /\ schedPc' = "exited"
    /\ UNCHANGED <<genVars, maxConcurrentJobs, isShuttingDown, activeJobs, sleepMs, lastClaim,
                   jobs, drainPc, drainElapsed, stopped, exitCode, logs>>

\* Loop test passes with a free slot: getNextJob() issues the claim RPC.
SchedIssueClaim ==
    /\ ~stopped
    /\ schedPc = "check"
    /\ LoopCondition
    /\ CanTakeMore
    /\ schedPc' = "claimWait"
    /\ UNCHANGED <<genVars, maxConcurrentJobs, isShuttingDown, activeJobs, sleepMs, lastClaim,
                   jobs, drainPc, drainElapsed, stopped, exitCode, logs>>

\* Loop test passes with every slot taken: no claim, sleep one poll interval.
SchedSkipClaim ==
    /\ ~stopped
    /\ schedPc = "check"
    /\ LoopCondition
    /\ ~CanTakeMore
    /\ SchedSleep(PollIntervalMs)
    /\ UNCHANGED <<genVars, maxConcurrentJobs, isShuttingDown, activeJobs, lastClaim,
                   jobs, drainPc, drainElapsed, stopped, exitCode, logs>>

\* The sleep timer of start() fires.
SchedWake ==
    /\ ~stopped
    /\ schedPc = "sleep"
    /\ schedPc' = "check"
    /\ sleepMs' = 0
    /\ lastClaim' = "none"
    /\ UNCHANGED <<genVars, maxConcurrentJobs, isShuttingDown, activeJobs,
                   jobs, drainPc, drainElapsed, stopped, exitCode, logs>>


\* The claim RPC came back: getNextJob() resolved (it never rejects; every
\* failure is logged there and turned into null).  Whatever it resolved to,
\* start() then awaits this.sleep(this.config.pollIntervalMs).  The catch of
\* start(), with its sleep(5000), is entered by no statement of the try block:
\* getNextJob swallows its errors and processJob is an async function, whose
\* errors reject its promise.  It has no action here.
AfterClaimSleepMs == PollIntervalMs

\* Mutant: the dispatched promise is not put into the map.
RegisterNothing(j) == activeJobs

\* this.activeJobs.set(job.job_id, jobPromise)
Register(j) == activeJobs \cup {j}

\* data[0] returned: processJob(job) runs up to its first await (the initial
\* heartbeat RPC is issued), the promise is registered, start() sleeps.
ClaimReturnsJob(kind) ==
    /\ ~stopped
    /\ schedPc = "claimWait"
    /\ Unclaimed # {}
    /\ LET j == NextPending IN
        /\ jobs' = [jobs EXCEPT ![j] = [NewJob EXCEPT !.pc = "hb0", !.kind = kind,
                                                      !.trace = <<"heartbeat">>]]
        /\ activeJobs' = Register(j)
    /\ lastClaim' = "job"
    /\ SchedSleep(AfterClaimSleepMs)
    /\ UNCHANGED <<genVars, maxConcurrentJobs, isShuttingDown, drainPc, drainElapsed, stopped, exitCode, logs>>

\* !data || data.length === 0: no work.
ClaimReturnsEmpty ==
    /\ ~stopped
    /\ schedPc = "claimWait"
    /\ lastClaim' = "empty"
    /\ SchedSleep(AfterClaimSleepMs)
    /\ UNCHANGED <<genVars, maxConcurrentJobs, isShuttingDown, activeJobs, jobs, drainPc,
                   drainElapsed, stopped, exitCode, logs>>

\* The RPC returned { error }: 'Error getting next job' is logged (the record
\* is what lastClaim = "error" stands for), null returned.
ClaimReturnsError ==
    /\ ~stopped
    /\ schedPc = "claimWait"
    /\ lastClaim' = "error"
    /\ SchedSleep(AfterClaimSleepMs)
    /\ UNCHANGED <<genVars, maxConcurrentJobs, isShuttingDown, activeJobs, jobs, drainPc,
                   drainElapsed, stopped, exitCode, logs>>

\* Mutant: getNextJob lets the exception through and it ends the process.
ClaimThrowsFatal ==
    /\ ~stopped
    /\ schedPc = "claimWait"
    /\ lastClaim' = "exception"
    /\ schedPc' = "exited"
    /\ stopped' = TRUE
    /\ exitCode' = 1
    /\ UNCHANGED <<genVars, maxConcurrentJobs, isShuttingDown, activeJobs, sleepMs, jobs,
                   drainPc, drainElapsed, logs>>

\* The RPC threw: 'Exception getting next job' is logged (the record is what
\* lastClaim = "exception" stands for), null returned.
ClaimThrows ==
    /\ ~stopped
    /\ schedPc = "claimWait"
    /\ lastClaim' = "exception"
    /\ SchedSleep(AfterClaimSleepMs)
    /\ UNCHANGED <<genVars, maxConcurrentJobs, isShuttingDown, activeJobs, jobs, drainPc,
                   drainElapsed, stopped, exitCode, logs>>

(***************************************************************************)
(* processJob / processMealPlanJob / generateMealPlan: one action per      *)
(* awaited call returning.                                                 *)
(***************************************************************************)
\* Results of a Job Source / store call: a result without error, a result
\* carrying an error, or an exception.
CallResults == {"ok", "error", "throws"}

\* What the generative provider can answer to the plan request:
\*   "api_error"   the call throws
\*   "empty"       no message content
\*   "garbage"     content that is not JSON
\*   "null"        JSON null
\*   "no_days"     an object without a days field
\*   "days_string" an object whose days is a non-array value
\*   "null_day"    an object whose days array holds a null among its first seven
\*   "null_meal"   an object whose days are objects, one with a null in its meals
\*   "days_array"  an object whose days is an array of well-formed days
ProviderResponses == {"api_error", "empty", "garbage", "null", "no_days",
                      "days_string", "null_day", "null_meal", "days_array"}

\* Mutant: the days field is not validated.
GenFailureNoDaysCheck(resp) ==
    IF resp = "api_error" THEN "provider call failed"
    ELSE IF resp = "empty" THEN "OpenAI returned no content"
    ELSE IF resp = "garbage" THEN "Failed to parse AI response"
    ELSE IF resp = "null" THEN "TypeError reading days of null"
    ELSE IF resp = "null_day" THEN "TypeError setting date of null"
    ELSE ""

\* The error generateMealPlanWithAI throws for a provider answer ("" when none).
GenFailure(resp) ==
    IF resp = "api_error" THEN "provider call failed"
    ELSE IF resp = "empty" THEN "OpenAI returned no content"
    ELSE IF resp = "garbage" THEN "Failed to parse AI response"
    ELSE IF resp = "null" THEN "TypeError reading days of null"
    ELSE IF resp \in {"no_days", "days_string"}
        THEN "Invalid AI response: missing days array"
    ELSE IF resp = "null_day" THEN "TypeError setting date of null"
    ELSE ""

OnlyJob(j) == UNCHANGED <<genVars, maxConcurrentJobs, isShuttingDown, activeJobs, schedPc, sleepMs,
                          lastClaim, drainPc, drainElapsed, stopped, exitCode, logs>>

\* Mutant: the interval is cleared only on the success path.
HeartbeatLeftRunning(active) == active

\* finally { clearInterval(heartbeatInterval) }: the timer's state after
\* processMealPlanJob was left, by return or by throw.
HeartbeatAfterFinally(active) == FALSE

\* Mutant: the catch of processJob logs the error and reports nothing.
FailedJobNoReport(rec, msg) ==
    [rec EXCEPT !.pc = "failing", !.hbTimer = HeartbeatAfterFinally(@), !.cause = msg]

\* An error leaves processMealPlanJob (finally: clearInterval) or processJob's
\* try block; the catch of processJob issues markJobFailed(job_id, err.message).
FailedJob(rec, msg) ==
    [rec EXCEPT !.pc = "failing", !.hbTimer = HeartbeatAfterFinally(@),
                !.fails = @ + 1, !.cause = msg, !.trace = Append(@, "fail")]

\* Mutant: every kind is dispatched to the meal-plan pipeline.
IsMealPlanJobAnyKind(kind) == TRUE

\* if (job.job_type === 'meal_plan_generation')
IsMealPlanJob(kind) == kind = MealPlanKind

\* `Unknown job type: ${job.job_type}`
UnknownKindMessage(kind) == "Unknown job type: " \o kind

\* How the call `call` of this run ends.
CallOutcome(call) == IF call \in failingCalls THEN failMode ELSE "ok"

\* What a call's own error handling writes to the job's log for result `res`.
\*   sendMealPlanNotification: if (error) logger.warn(...); catch: logger.warn
\*   updateHeartbeat, markJobCompleted, markJobFailed: the result of rpc() is
\*   not looked at; only the catch logs
LoggedAfter(rec, call, res) ==
    IF call = "notification" /\ res \in {"error", "throws"}
        THEN rec.logged \cup {"notification"}
    ELSE IF call \in {"heartbeat", "complete_report", "fail_report"} /\ res = "throws"
        THEN rec.logged \cup {call}
    ELSE rec.logged

\* Mutant: updateHeartbeat lets its failure through.
HeartbeatFailurePropagates(res) ==
    IF res = "ok" THEN "" ELSE "Failed to update heartbeat"

\* The error that leaves updateHeartbeat: none.
HeartbeatFailure(res) == ""

\* The initial heartbeat returned (updateHeartbeat swallows its failure).
\* Recognized kind: processMealPlanJob starts the heartbeat interval and
\* generateMealPlan issues the profile read.  Any other kind throws.
Hb0Returns(j, res) ==
    /\ ~stopped
    /\ res = CallOutcome("heartbeat")
    /\ jobs[j].pc = "hb0"
    /\ LET rec == [jobs[j] EXCEPT !.logged = LoggedAfter(jobs[j], "heartbeat", res)] IN
       jobs' = [jobs EXCEPT ![j] =
            IF HeartbeatFailure(res) # ""
            THEN FailedJob(rec, HeartbeatFailure(res))
            ELSE IF IsMealPlanJob(rec.kind)
            THEN [rec EXCEPT !.pc = "profile", !.hbTimer = TRUE, !.stages = {"profile"},
                             !.trace = Append(@, "profile")]
            ELSE FailedJob(rec, UnknownKindMessage(rec.kind))]
    /\ OnlyJob(j)

\* Mutant: the plan request is sent without reading the food history.
ProfileReturnsSkipsHistory(j, res) ==
    /\ ~stopped
    /\ res = CallOutcome("profile")
    /\ jobs[j].pc = "profile"
    /\ jobs' = [jobs EXCEPT ![j] =
            [@ EXCEPT !.pc = "gen", !.stages = @ \cup {"gen"},
                           !.trace = Append(@, "gen")]]
    /\ OnlyJob(j)

\* fetchUserProfile returned: any failure degrades to {}.
ProfileReturns(j, res) ==
    /\ ~stopped
    /\ res = CallOutcome("profile")
    /\ jobs[j].pc = "profile"
    /\ jobs' = [jobs EXCEPT ![j] =
            [@ EXCEPT !.pc = "history", !.stages = @ \cup {"history"},
                           !.trace = Append(@, "history")]]
    /\ OnlyJob(j)

\* fetchFoodHistory returned: any failure degrades to the default text.
HistoryReturns(j, res) ==
    /\ ~stopped
    /\ res = CallOutcome("history")
    /\ jobs[j].pc = "history"
    /\ jobs' = [jobs EXCEPT ![j] =
            [@ EXCEPT !.pc = "gen", !.stages = @ \cup {"gen"},
                           !.trace = Append(@, "gen")]]
    /\ OnlyJob(j)

\* The plan request to the provider returned.
GenReturns(j, resp) ==
    /\ ~stopped
    /\ jobs[j].pc = "gen"
    /\ jobs' = [jobs EXCEPT ![j] =
            IF GenFailure(resp) = ""
            THEN [@ EXCEPT !.pc = "images", !.gen = resp, !.stages = @ \cup {"images"},
                           !.trace = Append(@, "images")]
            ELSE [FailedJob(@, GenFailure(resp)) EXCEPT !.gen = resp]]
    /\ OnlyJob(j)

\* Mutant: the plan is stored once before the cards are made and once after.
ImagesReturnSavesToo(j, res) ==
    /\ ~stopped
    /\ res = CallOutcome("images")
    /\ jobs[j].pc = "images"
    /\ jobs' = [jobs EXCEPT ![j] =
            IF jobs[j].gen = "null_meal"
            THEN FailedJob(@, "TypeError reading name of null")
            ELSE [@ EXCEPT !.pc = "cards", !.saves = @ + 1, !.stages = @ \cup {"cards"},
                           !.trace = Append(@, "cards")]]
    /\ OnlyJob(j)

\* fetchMealImages returned.  A failed image search (res) degrades to a default
\* image inside getMealImageUrl; a null among a day's meals is dereferenced
\* outside the per-meal try and the TypeError leaves generateMealPlan.
ImagesReturn(j, res) ==
    /\ ~stopped
    /\ res = CallOutcome("images")
    /\ jobs[j].pc = "images"
    /\ jobs' = [jobs EXCEPT ![j] =
            IF jobs[j].gen = "null_meal"
            THEN FailedJob(@, "TypeError reading name of null")
            ELSE [@ EXCEPT !.pc = "cards", !.stages = @ \cup {"cards"},
                           !.trace = Append(@, "cards")]]
    /\ OnlyJob(j)

\* Mutant: generateDietCards rethrows.
CardsFailurePropagates(res) ==
    IF res = "ok" THEN "" ELSE "Error generating diet cards"

\* The error that leaves generateDietCards: none, its catch returns [].
CardsFailure(res) == ""

\* generateDietCards returned (any failure: []); generateMealPlan returns and
\* processMealPlanJob issues the artifact write.
CardsReturn(j, res) ==
    /\ ~stopped
    /\ res = CallOutcome("cards")
    /\ jobs[j].pc = "cards"
    /\ jobs' = [jobs EXCEPT ![j] =
            IF CardsFailure(res) = ""
            THEN [@ EXCEPT !.pc = "save", !.saves = @ + 1, !.stages = @ \cup {"save"},
                           !.trace = Append(@, "save")]
            ELSE FailedJob(@, CardsFailure(res))]
    /\ OnlyJob(j)

\* Mutant: saveError is not looked at.
SaveFailureIgnored(res) == IF res = "throws" THEN "save call threw" ELSE ""

\* The error that leaves the artifact write: `Failed to save meal plan: ...`
\* for an error result, the exception itself when the call throws.
SaveFailure(res) ==
    IF res = "error" THEN "Failed to save meal plan"
    ELSE IF res = "throws" THEN "save call threw"
    ELSE ""

\* The artifact write returned.  saveError or an exception aborts the job;
\* otherwise sendMealPlanNotification issues its RPC.
SaveReturns(j, res) ==
    /\ ~stopped
    /\ jobs[j].pc = "save"
    /\ jobs' = [jobs EXCEPT ![j] =
            IF SaveFailure(res) = ""
            THEN [@ EXCEPT !.pc = "notify", !.written = (res = "ok"), !.notifs = @ + 1,
                           !.stages = @ \cup {"notify"},
                           !.trace = Append(@, "notify")]
            ELSE FailedJob(@, SaveFailure(res))]
    /\ OnlyJob(j)

\* Mutant: sendMealPlanNotification throws on a failed call.
NotifyFailurePropagates(res) ==
    IF res = "ok" THEN "" ELSE "Failed to schedule meal plan notification"

\* Mutant: a pipeline that finds the worker shutting down gives up.
NotifyFailureWhenDraining(res) == IF isShuttingDown THEN "worker is shutting down" ELSE ""

\* The error that leaves sendMealPlanNotification: none, an error result and
\* an exception are both logged with logger.warn.
NotifyFailure(res) == ""

\* schedule_notification returned (failure: logged only); markJobCompleted
\* issues the complete RPC.
NotifyReturns(j, res) ==
    /\ ~stopped
    /\ res = CallOutcome("notify")
    /\ jobs[j].pc = "notify"
    /\ jobs' = [jobs EXCEPT ![j] =
            IF NotifyFailure(res) = ""
            THEN [@ EXCEPT !.pc = "complete", !.completes = @ + 1,
                           !.trace = Append(@, "complete"),
                           !.logged = LoggedAfter(jobs[j], "notification", res)]
            ELSE FailedJob([@ EXCEPT !.logged = LoggedAfter(jobs[j], "notification", res)],
                           NotifyFailure(res))]
    /\ OnlyJob(j)

\* .finally(() => this.activeJobs.delete(job.job_id))
Deregister(j) == activeJobs \ {j}

\* processJob's promise settled and its .catch/.finally reactions ran.
Settle(j, logged) ==
    /\ jobs' = [jobs EXCEPT ![j] =
            [@ EXCEPT !.pc = "settled", !.logged = logged,
                      !.hbTimer = IF jobs[j].pc = "complete"
                                  THEN HeartbeatAfterFinally(@) ELSE @]]
    /\ activeJobs' = Deregister(j)
    /\ UNCHANGED <<genVars, maxConcurrentJobs, isShuttingDown, schedPc, sleepMs, lastClaim,
                   drainPc, drainElapsed, stopped, exitCode, logs>>

\* The complete RPC returned (markJobCompleted swallows its failure):
\* clearInterval, processJob returns, the slot is removed.
CompleteReturns(j, res) ==
    /\ ~stopped
    /\ res = CallOutcome("complete")
    /\ jobs[j].pc = "complete"
    /\ Settle(j, LoggedAfter(jobs[j], "complete_report", res))

\* The fail RPC returned (markJobFailed swallows its failure): processJob
\* returns, the slot is removed.
FailReturns(j, res) ==
    /\ ~stopped
    /\ res = CallOutcome("fail")
    /\ jobs[j].pc = "failing"
    /\ Settle(j, LoggedAfter(jobs[j], "fail_report", res))

(***************************************************************************)
(* gracefulShutdown(): runs on SIGINT/SIGTERM.                             *)
(***************************************************************************)
\* Mutant: the drain loop waits out the timeout whatever the slot count.
DrainConditionIgnoresSlots(elapsed) == elapsed < ShutdownTimeoutMs

\* Mutant: the drain loop does not wait at all.
DrainConditionNoWait(elapsed) == FALSE

\* while (this.activeJobs.size > 0 && (Date.now() - startTime) < shutdownTimeout)
DrainCondition(elapsed) == activeJobs # {} /\ elapsed < ShutdownTimeoutMs

\* After the drain loop: the timeout warning if slots are still occupied,
\* then process.exit(0).
DrainExit ==
    /\ logs' = IF activeJobs # {} THEN logs \cup {"shutdown_timeout"} ELSE logs
    /\ drainPc' = "done"
    /\ stopped' = TRUE
    /\ exitCode' = 0

\* The termination signal: isShuttingDown is set, startTime is taken and the
\* drain loop is tested for the first time, all in one run of the handler.
Signal ==
    /\ ~stopped
    /\ drainPc = "idle"
    /\ isShuttingDown' = TRUE
    /\ drainElapsed' = 0
    /\ IF DrainCondition(0)
       THEN /\ drainPc' = "sleeping"
            /\ UNCHANGED <<stopped, exitCode, logs>>
       ELSE DrainExit
    /\ UNCHANGED <<genVars, maxConcurrentJobs, activeJobs, schedPc, sleepMs, lastClaim, jobs>>

\* The drain loop's sleep(5000) fires and the loop is tested again.
DrainWake ==
    /\ ~stopped
    /\ drainPc = "sleeping"
    /\ drainElapsed' = drainElapsed + DrainPollMs
    /\ IF DrainCondition(drainElapsed')
       THEN UNCHANGED <<drainPc, stopped, exitCode, logs>>
       ELSE DrainExit
    /\ UNCHANGED <<genVars, maxConcurrentJobs, isShuttingDown, activeJobs, schedPc, sleepMs,
                   lastClaim, jobs>>

(***************************************************************************)
(* The worker.                                                             *)
(***************************************************************************)
\* The loop of start() while it goes on.
Polling ==
    \/ SchedIssueClaim
    \/ SchedSkipClaim
    \/ SchedWake
    \/ \E kind \in JobKinds : ClaimReturnsJob(kind)
    \/ ClaimReturnsEmpty
    \/ ClaimReturnsError
    \/ ClaimThrows

Scheduler == SchedExit \/ Polling

Pipeline(j) ==
    \/ \E res \in CallResults : Hb0Returns(j, res)
    \/ \E res \in CallResults : ProfileReturns(j, res)
    \/ \E res \in CallResults : HistoryReturns(j, res)
    \/ \E resp \in ProviderResponses : GenReturns(j, resp)
    \/ \E res \in CallResults : ImagesReturn(j, res)
    \/ \E res \in CallResults : CardsReturn(j, res)
    \/ \E res \in CallResults : SaveReturns(j, res)
    \/ \E res \in CallResults : NotifyReturns(j, res)
    \/ \E res \in CallResults : CompleteReturns(j, res)
    \/ \E res \in CallResults : FailReturns(j, res)

Shutdown == Signal \/ DrainWake

Next ==
    \/ Scheduler
    \/ \E j \in JobIds : Pipeline(j)
    \/ Shutdown

Spec == Init /\ [][Next]_vars

(***************************************************************************)
(* The worker with the 30-second heartbeat interval of processMealPlanJob  *)
(* firing, in runs without a termination signal.                           *)
(***************************************************************************)
\* setInterval(async () => { await this.updateHeartbeat(job.job_id) }, 30000):
\* the callback runs whenever the interval is active and 30 s have passed,
\* whatever call the job is awaiting (any call can take that long).
HeartbeatTick(j) ==
    /\ ~stopped
    /\ jobs[j].hbTimer
    /\ jobs' = [jobs EXCEPT ![j].lastBeat = jobs[j].pc]
    /\ OnlyJob(j)

HeartbeatNext ==
    \/ Polling
    \/ \E j \in JobIds : Pipeline(j)
    \/ \E j \in JobIds : HeartbeatTick(j)

SpecHeartbeat == Init /\ [][HeartbeatNext]_vars

(***************************************************************************)
(* The worker with failing collaborators, in runs without a termination    *)
(* signal: any subset of the degradable calls fails, by error result or by *)
(* exception.                                                              *)
(***************************************************************************)
DegradedInit ==
    /\ WorkerInit
    /\ failingCalls \in SUBSET DegradableCalls
    /\ failMode \in {"error", "throws"}
    /\ unsplashAccessKey = TRUE
    /\ GenIdle
    /\ CalIdle
    /\ Booted

DegradedNext ==
    \/ Polling
    \/ \E j \in JobIds : Pipeline(j)

SpecDegraded == DegradedInit /\ [][DegradedNext]_vars

(***************************************************************************)
(* MealPlanGenerator: image enrichment over the module-level used-images   *)
(* set.  The calls of generateMealPlan modelled here overlap freely, as    *)
(* the jobs of one worker do under a concurrency limit of two or more.     *)
(***************************************************************************)
\* Meal types the provider's document carries; "Cheat Day" is the placeholder
\* meal of a cheat day.
MealTypes == {"Breakfast", "Dinner", "Cheat Day"}

\* The mealType argument fetchMealImages passes to getMealImageUrl.
MealTypeArg(type) == IF type = "Cheat Day" THEN "Cheat Meal" ELSE type

\* defaultImagesByType[mealType] || genericFoodImage
DefaultImage(mealType) ==
    CASE mealType = "Breakfast" -> "default_breakfast"
      [] mealType = "Lunch" -> "default_lunch"
      [] mealType = "Dinner" -> "default_dinner"
      [] mealType = "Snack" -> "default_snack"
      [] OTHER -> "generic"

\* The image the catch around the cheat-day call of getMealImageUrl assigns
\* (the same URL as the Dinner default).  getMealImageUrl catches every error
\* of its own, so nothing reaches that catch.
CheatDayFallbackImage == "default_dinner"

\* What one image search comes back with: a failure (HTTP error, exception)
\* or the ordered list of the results' urls.regular.
BoundedSeq(S, n) == UNION {[1..k -> S] : k \in 0..n}

SearchOutcomes ==
    [ok : {FALSE}, results : {<<>>}] \cup [ok : {TRUE}, results : BoundedSeq(Urls, MaxResults)]

\* Mutant: the first result is taken whether used or not.
FirstUnusedIgnoresUsed(results, used) ==
    IF results = <<>> THEN "none" ELSE results[1]

\* for (const image of data.results) if (... && !usedImageUrls.has(url)):
\* the first result not in `used`, "none" if there is none.
FirstUnused(results, used) ==
    LET free == {i \in 1..Len(results) : results[i] \notin used} IN
    IF free = {} THEN "none"
    ELSE results[CHOOSE i \in free : \A k \in free : i <= k]

\* Mutant: the search is made without looking at the credential.
MealImageUrlNoKeyCheck(mealType, out, used) ==
    IF ~out.ok THEN DefaultImage(mealType)
    ELSE IF FirstUnused(out.results, used) = "none" THEN DefaultImage(mealType)
    ELSE FirstUnused(out.results, used)

\* if (!this.unsplashAccessKey) return ...: fetch is reached only with a key.
SearchAttempted == unsplashAccessKey

\* getMealImageUrl: the image returned for mealType when the search came back
\* with `out` and the used-images set is `used`.
MealImageUrl(mealType, out, used) ==
    IF ~unsplashAccessKey THEN DefaultImage(mealType)
    ELSE IF ~out.ok THEN DefaultImage(mealType)
    ELSE IF FirstUnused(out.results, used) = "none" THEN DefaultImage(mealType)
    ELSE FirstUnused(out.results, used)

\* usedImageUrls.add(url) happens only for a url taken from the results.
UsedAfter(image, used) == IF image \in Urls THEN used \cup {image} ELSE used

\* Mutant: generateMealPlan does not touch the shared set when it starts.
ClearedSetKept == usedImageUrls

\* usedImageUrls.clear()
ClearedSet == {}

\* generateMealPlan starts: the shared set is cleared.  (The stages before
\* fetchMealImages touch neither the set nor the meals.)
StartPlan(p) ==
    /\ plans[p].ipc = "idle"
    /\ usedImageUrls' = ClearedSet
    /\ plans' = [plans EXCEPT ![p] = [@ EXCEPT !.ipc = "images"]]
    /\ UNCHANGED <<schedVars, envVars, calVars, bootVars, unsplashAccessKey>>

\* getMealImageUrl returns for the next meal of plan p, of type `type`, after
\* the search came back with `out`: the image is picked and recorded in the
\* shared set in one step.
ImageReturns(p, type, out) ==
    /\ plans[p].ipc = "images"
    /\ Len(plans[p].meals) < MaxMeals
    /\ LET image == MealImageUrl(MealTypeArg(type), out, usedImageUrls)
           alone == MealImageUrl(MealTypeArg(type), out, plans[p].own)
       IN  /\ usedImageUrls' = UsedAfter(image, usedImageUrls)
           /\ plans' = [plans EXCEPT ![p] =
                    [@ EXCEPT !.meals = Append(@, [type |-> type, image |-> image,
                                                   searched |-> SearchAttempted,
                                                   alone |-> alone]),
                              !.own = UsedAfter(alone, @)]]
    /\ UNCHANGED <<schedVars, envVars, calVars, bootVars, unsplashAccessKey>>

\* fetchMealImages returns: every meal of the document was handled.
FinishImages(p) ==
    /\ plans[p].ipc = "images"
    /\ plans' = [plans EXCEPT ![p].ipc = "done"]
    /\ UNCHANGED <<schedVars, envVars, calVars, bootVars, unsplashAccessKey, usedImageUrls>>

ImgNext ==
    \/ \E p \in PlanIds : StartPlan(p)
    \/ \E p \in PlanIds, type \in MealTypes, out \in SearchOutcomes : ImageReturns(p, type, out)
    \/ \E p \in PlanIds : FinishImages(p)

\* The worker is left out of this specification: its variables keep the
\* values of a freshly constructed JobProcessor.
ImgInit ==
    /\ WorkerInit
    /\ maxConcurrentJobs = MaxLimit
    /\ CollaboratorsHealthy
    /\ unsplashAccessKey \in BOOLEAN
    /\ GenIdle
    /\ CalIdle
    /\ Booted

SpecImg == ImgInit /\ [][ImgNext]_vars

(***************************************************************************)
(* The same image enrichment on a worker whose jobs never overlap: with a  *)
(* concurrency limit of 1 the slot test of start() lets a job be           *)
(* dispatched only when no other is in flight, so a generateMealPlan call  *)
(* starts only when no other is running.                                   *)
(***************************************************************************)
\* activeJobs.size < 1: no other job's generateMealPlan is under way.
NoOtherPlanRunning(p) == \A q \in PlanIds \ {p} : plans[q].ipc # "images"

SerialNext ==
    \/ \E p \in PlanIds : NoOtherPlanRunning(p) /\ StartPlan(p)
    \/ \E p \in PlanIds, type \in MealTypes, out \in SearchOutcomes : ImageReturns(p, type, out)
    \/ \E p \in PlanIds : FinishImages(p)

SpecSerial == ImgInit /\ [][SerialNext]_vars

(***************************************************************************)
(* MealPlanGenerator: the calorie map of generateMealPlanWithAI.  Calendar *)
(* dates are day numbers; a derivation reads the clock, computes the seven *)
(* dates from it and the effective target of each.                         *)
(***************************************************************************)
\* What a cheat-day entry can carry: a date (the two days the clock can show,
\* or a day outside every week explored) and a calorie override.
FarDate == MaxToday + WeekLength
CheatDates == (1..MaxToday) \cup {FarDate}
CheatCalories == {0, 3000}
CheatEntries == [date : CheatDates, calories : CheatCalories]

\* A cheat day on every date of the week that starts on day 1.
FullWeek(c) == [i \in 1..WeekLength |-> [date |-> i, calories |-> c]]

\* userPreferences.cheatDays (absent or empty: <<>>).
CheatLists == BoundedSeq(CheatEntries, MaxCheat) \cup {FullWeek(c) : c \in CheatCalories}

\* userProfile.calorieGoal (0: not set).
CalorieGoals == {0, 1800}

\* getCurrentWeekDates(): today and the six days after it.
WeekDates(t) == t..(t + WeekLength - 1)

\* userProfile.calorieGoal || 2000
BaselineGoal(goal) == IF goal # 0 THEN goal ELSE DefaultCalorieGoal

\* Math.round(a / n) for n > 0: the nearest integer, halves rounded up.
Round(a, n) == (2 * a + n) \div (2 * n)

\* cheatDays.reduce((s, cd) => s + cd.calories, 0)
RECURSIVE TotalCheatCals(_)
TotalCheatCals(cheatDays) ==
    IF cheatDays = <<>> THEN 0
    ELSE cheatDays[Len(cheatDays)].calories
            + TotalCheatCals(SubSeq(cheatDays, 1, Len(cheatDays) - 1))

\* The derivations made so far, over all jobs.
RunsDone ==
    LET RECURSIVE Count(_)
        Count(P) == IF P = {} THEN 0
                    ELSE LET p == CHOOSE q \in P : TRUE
                         IN  Len(calJobs[p].runs) + Count(P \ {p})
    IN  Count(PlanIds)

\* Mutant: the cheat-day count is kept in a counter shared by all derivations.
CheatCountAcrossRuns(cheatDays) == Len(cheatDays) + RunsDone

\* const cheatCount = userPreferences.cheatDays.length
CheatCount(cheatDays) == Len(cheatDays)

\* const normalDays = weekDates.length - cheatCount
NormalDays(cheatDays) == WeekLength - CheatCount(cheatDays)

\* const normalDayCals = normalDays > 0 ? Math.round(...) : calories
NormalDayCals(cheatDays, goal) ==
    IF NormalDays(cheatDays) > 0
    THEN Round(WeekLength * BaselineGoal(goal) - TotalCheatCals(cheatDays),
               NormalDays(cheatDays))
    ELSE BaselineGoal(goal)

\* The entries of the list dated d.
EntriesFor(cheatDays, d) == {i \in 1..Len(cheatDays) : cheatDays[i].date = d}

\* cheatMap[dateStr] with cheatMap = Object.fromEntries(...): the calories of
\* the last entry dated d, 0 standing for undefined as well (both are falsy).
CheatMapValue(cheatDays, d) ==
    IF EntriesFor(cheatDays, d) = {} THEN 0
    ELSE cheatDays[CHOOSE i \in EntriesFor(cheatDays, d) :
                        \A k \in EntriesFor(cheatDays, d) : k <= i].calories

\* effectiveCaloriesPerDay after the if/else of generateMealPlanWithAI.
EffectiveCaloriesPerDay(cheatDays, goal, t) ==
    IF Len(cheatDays) > 0
    THEN [d \in WeekDates(t) |->
            IF CheatMapValue(cheatDays, d) # 0
            THEN CheatMapValue(cheatDays, d)
            ELSE NormalDayCals(cheatDays, goal)]
    ELSE [d \in WeekDates(t) |-> BaselineGoal(goal)]

\* One derivation for job p: the clock is read and the map computed.  `at`
\* numbers the derivations of the run in the order they were made.
DeriveCalories(p) ==
    /\ Len(calJobs[p].runs) < MaxRuns
    /\ calJobs' = [calJobs EXCEPT ![p].runs = Append(@,
            [today |-> today, at |-> RunsDone,
             map |-> EffectiveCaloriesPerDay(calJobs[p].cheatDays,
                                             calJobs[p].calorieGoal, today)])]
    /\ UNCHANGED <<schedVars, imgVars, envVars, bootVars, today, aiDays, processedDays>>

\* Midnight passes.
ClockTick ==
    /\ today < MaxToday
    /\ today' = today + 1
    /\ UNCHANGED <<schedVars, imgVars, envVars, bootVars, calJobs, aiDays, processedDays>>

CalNext ==
    \/ \E p \in PlanIds : DeriveCalories(p)
    \/ ClockTick

\* The worker and the image model are left out of this specification.
CalInit ==
    /\ WorkerInit
    /\ maxConcurrentJobs = MaxLimit
    /\ CollaboratorsHealthy
    /\ unsplashAccessKey = TRUE
    /\ GenIdle
    /\ Booted
    /\ today = 1
    /\ calJobs \in [PlanIds -> [cheatDays : CheatLists, calorieGoal : CalorieGoals,
                                 runs : {<<>>}]]
    /\ aiDays = <<>>
    /\ processedDays = [p \in PlanIds |-> <<>>]

SpecCal == CalInit /\ [][CalNext]_vars

(***************************************************************************)
(* MealPlanGenerator: the post-processing of the provider's days at the    *)
(* end of generateMealPlanWithAI, with the weekDates and the calorie map   *)
(* the same call computed before it asked the provider.                    *)
(***************************************************************************)
\* What the provider put into a day: a date (0: not one of the week's; day 1)
\* and a calorie target of its own.
ProviderDates == {0, 1}
ProviderTarget == 1234

\* A days array of the provider: n days, all carrying the same values.
ProviderDays(n, date) ==
    [i \in 1..n |-> [date |-> date, daily_calorie_target |-> ProviderTarget]]

ProviderDayLists == {ProviderDays(n, date) : n \in 0..MaxDays, date \in ProviderDates}

\* Calorie overrides up to the whole week's budget of the default goal.
DaysCheatCalories == {0, 3000, 7000}
DaysCheatLists == BoundedSeq([date : CheatDates, calories : DaysCheatCalories], MaxCheat)

\* const matchingDate = weekDates[index] (0: undefined, index is past the week)
MatchingDate(day, i, t) == IF i <= WeekLength THEN t + i - 1 ELSE 0

\* The body of aiGeneratedPlan.days.forEach for the day at position i
\* (1-based), with the weekDates that start on day t and the map `map`.
\*   if (matchingDate) { day.date = dateStr;
\*     if (effectiveCaloriesPerDay[dateStr]) day.daily_calorie_target = ... }
PostProcessDay(day, i, t, map) ==
    LET dateStr == MatchingDate(day, i, t) IN
    IF dateStr # 0
    THEN [date |-> dateStr,
          daily_calorie_target |-> IF map[dateStr] # 0 THEN map[dateStr]
                                   ELSE day.daily_calorie_target]
    ELSE day

\* The provider's document arrived for a derivation of job p that was waiting
\* for it: its days are post-processed with that derivation's dates and map.
PostProcessDays(p) ==
    /\ Len(processedDays[p]) < Len(calJobs[p].runs)
    /\ LET run == calJobs[p].runs[Len(processedDays[p]) + 1] IN
       processedDays' = [processedDays EXCEPT ![p] = Append(@,
            [i \in 1..Len(aiDays) |-> PostProcessDay(aiDays[i], i, run.today, run.map)])]
    /\ UNCHANGED <<schedVars, imgVars, envVars, bootVars, today, calJobs, aiDays>>

DaysNext ==
    \/ \E p \in PlanIds : DeriveCalories(p)
    \/ ClockTick
    \/ \E p \in PlanIds : PostProcessDays(p)

\* The first job's preferences and the provider's answer vary; the second job
\* has no cheat days and no calorie goal.
DaysInit ==
    /\ WorkerInit
    /\ maxConcurrentJobs = MaxLimit
    /\ CollaboratorsHealthy
    /\ unsplashAccessKey = TRUE
    /\ GenIdle
    /\ Booted
    /\ today = 1
    /\ \E cheatDays \in DaysCheatLists, goal \in CalorieGoals :
        calJobs = [p \in PlanIds |->
            IF p = 1 THEN [cheatDays |-> cheatDays, calorieGoal |-> goal, runs |-> <<>>]
            ELSE [cheatDays |-> <<>>, calorieGoal |-> 0, runs |-> <<>>]]
    /\ aiDays \in ProviderDayLists
    /\ processedDays = [p \in PlanIds |-> <<>>]

SpecDays == DaysInit /\ [][DaysNext]_vars

(***************************************************************************)
(* index.ts: startup.  main() runs validateEnvironment, getWorkerConfig    *)
(* and the JobProcessor constructor in one go; then start() polls.         *)
(***************************************************************************)
\* const missing = required.filter(env => !process.env[env])
MissingEnv == RequiredEnv \ environ

\* main(): a missing required credential ends the process with exit(1);
\* otherwise a missing image-search key is warned about and the JobProcessor
\* is constructed with whatever key there is.
Main ==
    /\ bootPc = "validating"
    /\ IF MissingEnv # {}
       THEN /\ bootPc' = "exited"
            /\ stopped' = TRUE
            /\ exitCode' = 1
            /\ UNCHANGED <<bootWarned, unsplashAccessKey>>
       ELSE /\ bootPc' = "running"
            /\ bootWarned' = (ImageKeyEnv \notin environ)
            /\ unsplashAccessKey' = (ImageKeyEnv \in environ)
            /\ UNCHANGED <<stopped, exitCode>>
    /\ UNCHANGED <<environ, envVars, calVars, usedImageUrls, plans, maxConcurrentJobs,
                   isShuttingDown, activeJobs, schedPc, sleepMs, lastClaim, jobs,
                   drainPc, drainElapsed, logs>>

BootInit ==
    /\ WorkerInit
    /\ CollaboratorsHealthy
    /\ unsplashAccessKey = FALSE
    /\ GenIdle
    /\ CalIdle
    /\ bootPc = "validating"
    /\ environ \in SUBSET EnvNames
    /\ bootWarned = FALSE

\* Nothing of the JobProcessor runs before main() has constructed it.
BootNext ==
    \/ Main
    \/ bootPc = "running" /\ Polling
    \/ bootPc = "running" /\ \E j \in JobIds : Pipeline(j)

SpecBoot == BootInit /\ [][BootNext]_vars

(***************************************************************************)
(* Fairness.  TimerFairSpec: Node's event loop fires every armed timer and *)
(* runs the code that follows it; nothing is assumed about external calls, *)
(* which may never return.  FairSpec adds that every awaited external call *)
(* returns (with a result, an error or an exception).                      *)
(***************************************************************************)
TimerFairness ==
    /\ WF_vars(SchedWake)
    /\ WF_vars(SchedExit \/ SchedIssueClaim \/ SchedSkipClaim)
    /\ WF_vars(DrainWake)

TimerFairSpec == Spec /\ TimerFairness

FairSpec ==
    /\ Spec
    /\ TimerFairness
    /\ WF_vars(\E kind \in JobKinds : ClaimReturnsJob(kind))
    /\ WF_vars(ClaimReturnsEmpty \/ ClaimReturnsError \/ ClaimThrows)
    /\ \A j \in JobIds : WF_vars(Pipeline(j))

(***************************************************************************)
(* Properties.                                                             *)
(***************************************************************************)
Reports(j) == jobs[j].completes + jobs[j].fails

\* C1: for every concurrency limit L >= 1, in every reachable state the slot
\* map holds at most L entries.
C1_SlotsWithinLimit == Cardinality(activeJobs) <= maxConcurrentJobs

\* C1 witness: the limit is reached with work still pending, and the loop went
\* to sleep without claiming.
C1_Witness ==
    /\ Cardinality(activeJobs) = maxConcurrentJobs
    /\ Unclaimed # {}
    /\ schedPc = "sleep"
    /\ lastClaim = "none"

\* The process stopped on the drain timeout with job j still in its slot.
AbandonedOnTimeout(j) ==
    /\ stopped
    /\ j \in activeJobs
    /\ drainElapsed >= ShutdownTimeoutMs

C3_NoClaimWhileDraining ==
    [][isShuttingDown => ~(schedPc # "claimWait" /\ schedPc' = "claimWait")]_vars

\* C3 witness: the loop ended during the drain although a slot was free and a
\* job was pending.
C3_Witness ==
    /\ isShuttingDown
    /\ ~stopped
    /\ schedPc = "exited"
    /\ Cardinality(activeJobs) < maxConcurrentJobs
    /\ Unclaimed # {}

\* C4 (as claimed, for the URLs the image search resolved): no two meals of
\* one plan are given the same image URL.
C4_NoDuplicateImageInPlan ==
    \A p \in PlanIds : \A a, b \in 1..Len(plans[p].meals) :
        (a # b /\ plans[p].meals[a].image \in Urls)
            => plans[p].meals[a].image # plans[p].meals[b].image

\* C5 (as claimed): every meal gets the image its own plan's search results
\* give with a used-images set scoped to that plan, whatever other plans do.
C5_ImagesDependOnOwnPlanOnly ==
    \A p \in PlanIds : \A a \in 1..Len(plans[p].meals) :
        plans[p].meals[a].image = plans[p].meals[a].alone

\* C6: during a drain the process stops at the first drain poll that finds
\* the slot map empty, whatever time is left of the drain timeout and without
\* the timeout warning, and before the timeout it never stops while a slot is
\* occupied.
C6_StopsWhenDrained ==
    [][/\ (drainPc = "sleeping" /\ drainElapsed' # drainElapsed /\ activeJobs = {})
            => (stopped' /\ logs' = logs)
       /\ (~stopped /\ stopped' /\ drainElapsed' < ShutdownTimeoutMs)
            => activeJobs = {}]_vars

\* C6 witness: two jobs were in flight during the drain, both settled, and the
\* process stopped at the second drain poll, long before the timeout.
C6_Witness ==
    /\ stopped
    /\ activeJobs = {}
    /\ drainElapsed = 2 * DrainPollMs
    /\ \A j \in JobIds : jobs[j].pc = "settled"
    /\ "shutdown_timeout" \notin logs

\* A job whose own pipeline has not reached its complete or fail report.
BeforeReport(j) == InFlight(j) /\ jobs[j].pc \notin {"complete", "failing"}

C8_BackoffAfterClaimFailure ==
    (schedPc = "sleep" /\ lastClaim \in {"error", "exception"})
        => (sleepMs = 5 * PollIntervalMs /\ sleepMs > PollIntervalMs)

\* C9: a failed claim changes neither the slot map nor any job, dispatches
\* nothing, leaves the scheduler running and asleep for its next poll, and the
\* scheduler issues a claim again unless a termination signal arrives first.
C9_ClaimFailureNotFatal ==
    /\ [][(schedPc = "claimWait" /\ lastClaim' \in {"error", "exception"}) =>
            /\ activeJobs' = activeJobs
            /\ jobs' = jobs
            /\ isShuttingDown' = isShuttingDown
            /\ stopped' = stopped
            /\ schedPc' = "sleep"]_vars
    /\ (lastClaim \in {"error", "exception"}) ~> (schedPc = "claimWait" \/ isShuttingDown)

\* C9 witness: a claim failed while a job was in flight; the scheduler is
\* still running, asleep before its next poll, and the slot is still there.
C9_Witness ==
    /\ lastClaim = "exception"
    /\ schedPc = "sleep"
    /\ ~isShuttingDown
    /\ ~stopped
    /\ activeJobs = {1}
    /\ jobs[1].pc = "gen"

\* The provider answers the claim lists: no content, unparseable, days missing
\* or not an array.
InvalidPlanResponses == {"empty", "garbage", "no_days", "days_string"}

\* The message each of them fails the job with.
InvalidPlanCause(resp) ==
    CASE resp = "empty" -> "OpenAI returned no content"
      [] resp = "garbage" -> "Failed to parse AI response"
      [] resp \in {"no_days", "days_string"} -> "Invalid AI response: missing days array"

\* C10: a job whose plan request got one of those answers is reported failed
\* with the matching cause, and has no artifact write, no notification and no
\* complete report.
C10_InvalidPlanFailsJob ==
    \A j \in JobIds :
        jobs[j].gen \in InvalidPlanResponses =>
            /\ jobs[j].pc \in {"failing", "settled"}
            /\ jobs[j].fails = 1
            /\ jobs[j].cause = InvalidPlanCause(jobs[j].gen)
            /\ jobs[j].completes = 0
            /\ jobs[j].saves = 0
            /\ ~jobs[j].written
            /\ jobs[j].notifs = 0

\* C10 witness: a job whose document had no days field has settled.
C10_Witness ==
    \E j \in JobIds : jobs[j].gen = "no_days" /\ jobs[j].pc = "settled"

\* C11: a claimed job of an unrecognized kind, once its initial heartbeat has
\* returned, has fail reported exactly once with a cause that names the kind,
\* complete never, and no pipeline stage (context fetch, generation, image
\* search, artifact write, notification) invoked; nor is any stage invoked
\* for it before.
C11_UnknownKindFailsWithoutPipeline ==
    \A j \in JobIds :
        (InFlight(j) \/ jobs[j].pc = "settled") /\ jobs[j].kind # MealPlanKind =>
            /\ jobs[j].stages = {}
            /\ jobs[j].gen = "none"
            /\ jobs[j].saves = 0
            /\ jobs[j].notifs = 0
            /\ jobs[j].completes = 0
            /\ ~jobs[j].hbTimer
            /\ jobs[j].pc # "hb0" =>
                    /\ jobs[j].pc \in {"failing", "settled"}
                    /\ jobs[j].fails = 1
                    /\ jobs[j].cause = "Unknown job type: other_kind"

\* C11 witness: a job of an unrecognized kind has settled while a meal-plan
\* job claimed after it is in its pipeline.
C11_Witness ==
    /\ jobs[1].kind = OtherKind
    /\ jobs[1].pc = "settled"
    /\ jobs[1].fails = 1
    /\ jobs[2].kind = MealPlanKind
    /\ jobs[2].pc = "gen"

\* C12: once a job's pipeline has returned or failed (the fail report is
\* being made, or the execution has settled), the job's heartbeat timer is
\* not active, whichever stage the job got to.
C12_HeartbeatCancelledOnSettle ==
    \A j \in JobIds :
        jobs[j].pc \in {"failing", "settled"} => ~jobs[j].hbTimer

\* C12 witness: the timer of one job was started and the job completed, the
\* timer of another was started and its artifact write failed; both have
\* settled and neither timer is active.
C12_Witness ==
    \E j, k \in JobIds :
        /\ jobs[j].pc = "settled" /\ jobs[j].completes = 1 /\ ~jobs[j].hbTimer
        /\ jobs[k].pc = "settled" /\ jobs[k].fails = 1 /\ ~jobs[k].hbTimer
        /\ "save" \in jobs[k].stages /\ ~jobs[k].written

\* Sum of f over the finite set S.
SumOver(f, S) ==
    LET RECURSIVE Sum(_)
        Sum(T) == IF T = {} THEN 0
                  ELSE LET x == CHOOSE y \in T : TRUE IN f[x] + Sum(T \ {x})
    IN  Sum(S)

Abs(x) == IF x < 0 THEN -x ELSE x

\* The dates of a derivation's week that the cheat-day list names.
CheatDatesInWeek(cheatDays, t) == {d \in WeekDates(t) : EntriesFor(cheatDays, d) # {}}

\* A cheat-day list as the payload describes it: a set of dates, each with a
\* positive override, that leaves at least one day of the week uncovered.
PlainCheatList(cheatDays, t) ==
    /\ \A i, k \in 1..Len(cheatDays) : cheatDays[i].date = cheatDays[k].date => i = k
    /\ \A i \in 1..Len(cheatDays) : cheatDays[i].calories > 0
    /\ CheatDatesInWeek(cheatDays, t) # WeekDates(t)

\* The week's total as the claim counts it, in either reading of "the cheat
\* days' override values": the overrides of the whole list, or those of the
\* cheat days that fall in the week.
WeekTotals(cheatDays, t, map) ==
    LET normal == SumOver(map, WeekDates(t) \ CheatDatesInWeek(cheatDays, t))
    IN  {normal + TotalCheatCals(cheatDays),
         normal + SumOver(map, CheatDatesInWeek(cheatDays, t))}

\* C13 (as claimed, for plain cheat-day lists): every derived map sums to
\* 7 x baseline when there are no cheat days, and with cheat days the
\* non-cheat days' targets plus the cheat days' overrides are within one unit
\* per non-cheat day of 7 x baseline.
C13_WeekTotalIsSevenBaselines ==
    \A p \in PlanIds : \A r \in 1..Len(calJobs[p].runs) :
        LET cheatDays == calJobs[p].cheatDays
            run == calJobs[p].runs[r]
            target == WeekLength * BaselineGoal(calJobs[p].calorieGoal)
            normalCount == Cardinality(WeekDates(run.today)
                                        \ CheatDatesInWeek(cheatDays, run.today))
        IN  IF cheatDays = <<>>
            THEN SumOver(run.map, WeekDates(run.today)) = target
            ELSE PlainCheatList(cheatDays, run.today) =>
                    \E total \in WeekTotals(cheatDays, run.today, run.map) :
                        Abs(total - target) <= normalCount

\* The normal-day value as the claim computes it, in either reading of "sum
\* of cheat-day calories".
ClaimedNormalDayCals(cheatDays, goal, t, map) ==
    LET normalCount == Cardinality(WeekDates(t) \ CheatDatesInWeek(cheatDays, t))
    IN  {Round(WeekLength * BaselineGoal(goal) - TotalCheatCals(cheatDays), normalCount),
         Round(WeekLength * BaselineGoal(goal)
                 - SumOver(map, CheatDatesInWeek(cheatDays, t)), normalCount)}

\* C14 (as claimed, for plain cheat-day lists): in every derived map a date
\* named by the cheat-day list carries its override, and every other date
\* carries round((7 x baseline - cheat-day calories) / number of non-cheat
\* days), or the baseline when the list is empty.
C14_TargetPerDate ==
    \A p \in PlanIds : \A r \in 1..Len(calJobs[p].runs) :
        LET cheatDays == calJobs[p].cheatDays
            goal == calJobs[p].calorieGoal
            run == calJobs[p].runs[r]
        IN  PlainCheatList(cheatDays, run.today) =>
                \A d \in WeekDates(run.today) :
                    IF d \in CheatDatesInWeek(cheatDays, run.today)
                    THEN \E i \in EntriesFor(cheatDays, d) :
                            run.map[d] = cheatDays[i].calories
                    ELSE IF cheatDays = <<>>
                    THEN run.map[d] = BaselineGoal(goal)
                    ELSE run.map[d] \in
                            ClaimedNormalDayCals(cheatDays, goal, run.today, run.map)

DegradedStages(j) == jobs[j].stages \cap failingCalls

\* C17: whichever of the profile read, the recent-activity read, the image
\* search and the card generation fail, a job whose plan generation gave a
\* well-formed document is reported failed only for a failed artifact write,
\* and a job whose artifact write succeeded is never reported failed and is
\* reported completed once the notification call has returned.
C17_DegradeAndContinue ==
    \A j \in JobIds :
        /\ (jobs[j].gen = "days_array" /\ jobs[j].fails > 0) =>
                /\ jobs[j].saves = 1
                /\ ~jobs[j].written
                /\ jobs[j].cause \in {"Failed to save meal plan", "save call threw"}
        /\ jobs[j].written =>
                /\ jobs[j].fails = 0
                /\ jobs[j].pc \in {"notify", "complete", "settled"}
                /\ jobs[j].pc \in {"complete", "settled"} => jobs[j].completes = 1

\* C17 witness: both context reads, the image search and the card generation
\* threw, and a job settled as completed with its artifact written.
C17_Witness ==
    /\ failMode = "throws"
    /\ \E j \in JobIds :
        /\ DegradedStages(j) = {"profile", "history", "images", "cards"}
        /\ jobs[j].pc = "settled"
        /\ jobs[j].written
        /\ jobs[j].completes = 1
        /\ jobs[j].fails = 0

\* C18: a job whose artifact write failed (error result or exception) is
\* reported failed with that cause, and has no notification and no complete
\* report.
C18_SaveFailureFailsJob ==
    \A j \in JobIds :
        (jobs[j].saves = 1 /\ jobs[j].pc # "save" /\ ~jobs[j].written) =>
            /\ jobs[j].pc \in {"failing", "settled"}
            /\ jobs[j].fails = 1
            /\ jobs[j].cause \in {"Failed to save meal plan", "save call threw"}
            /\ jobs[j].notifs = 0
            /\ "notify" \notin jobs[j].stages
            /\ jobs[j].completes = 0

\* C18 witness: a job whose artifact write returned an error has settled,
\* after another whose write threw.
C18_Witness ==
    \E j, k \in JobIds :
        /\ jobs[j].pc = "settled" /\ jobs[j].cause = "Failed to save meal plan"
        /\ jobs[k].pc = "settled" /\ jobs[k].cause = "save call threw"

\* C19: a job whose notification call failed is still reported completed and
\* not failed, the failure being written to the log; and a job that is
\* reported failed has no notification call.
C19_NotificationFailureOnlyLogged ==
    \A j \in JobIds :
        /\ ("notify" \in DegradedStages(j) /\ jobs[j].pc # "notify") =>
                /\ jobs[j].pc \in {"complete", "settled"}
                /\ jobs[j].completes = 1
                /\ jobs[j].fails = 0
                /\ jobs[j].cause = ""
                /\ "notification" \in jobs[j].logged
        /\ jobs[j].fails > 0 => jobs[j].notifs = 0

\* C19 witness: the notification call returned an error result for a job
\* that settled as completed, while another job settled as failed.
C19_Witness ==
    /\ failMode = "error"
    /\ "notify" \in failingCalls
    /\ \E j, k \in JobIds :
        /\ jobs[j].pc = "settled" /\ jobs[j].completes = 1 /\ jobs[j].notifs = 1
        /\ jobs[k].pc = "settled" /\ jobs[k].fails = 1

\* C20 (as claimed): when the fail call of a job itself failed, the failure
\* is in the log, the job's slot is removed, the scheduler goes on and the
\* job is not run again.
C20_FailReportBestEffort ==
    \A j \in JobIds :
        ("fail" \in failingCalls /\ jobs[j].fails > 0 /\ jobs[j].pc # "failing") =>
            /\ jobs[j].pc = "settled"
            /\ jobs[j].fails = 1
            /\ j \notin activeJobs
            /\ ~stopped
            /\ "fail_report" \in jobs[j].logged

\* The three credentials startup cannot do without are all set.
CredentialsComplete ==
    {"SUPABASE_URL", "SUPABASE_SERVICE_ROLE_KEY", "OPENAI_API_KEY"} \subseteq environ

\* C21: once main() has run, a missing job-queue URL, job-queue key or
\* generative-provider key has ended the process with a non-zero exit code
\* and no claim was ever issued; with the three present the worker runs, and
\* a missing image-search key was warned about and is the only effect.  No
\* claim is issued unless the three are present and main() has run.
C21_StartupFailsFast ==
    /\ [](bootPc # "validating" =>
            IF CredentialsComplete
            THEN /\ bootPc = "running"
                 /\ exitCode = -1
                 /\ ~stopped
                 /\ bootWarned = ("UNSPLASH_ACCESS_KEY" \notin environ)
                 /\ unsplashAccessKey = ("UNSPLASH_ACCESS_KEY" \in environ)
            ELSE /\ bootPc = "exited"
                 /\ stopped
                 /\ exitCode > 0
                 /\ schedPc = "check"
                 /\ Unclaimed = JobIds)
    /\ [][schedPc' = "claimWait" => (bootPc = "running" /\ CredentialsComplete)]_vars

\* C21 witness: started without the image-search key, the worker warned,
\* claimed a job and completed it.
C21_Witness ==
    /\ environ = {"SUPABASE_URL", "SUPABASE_SERVICE_ROLE_KEY", "OPENAI_API_KEY"}
    /\ bootWarned
    /\ \E j \in JobIds : jobs[j].pc = "settled" /\ jobs[j].completes = 1

\* C22 (as claimed, for the calls made on behalf of a job): a heartbeat,
\* complete or fail call that failed and has returned left a record in the
\* job's log.
C22_JobSourceFailuresLogged ==
    \A j \in JobIds :
        /\ ("heartbeat" \in failingCalls /\ jobs[j].pc \notin {"unclaimed", "hb0"})
                => "heartbeat" \in jobs[j].logged
        /\ ("complete" \in failingCalls /\ jobs[j].completes = 1 /\ jobs[j].pc = "settled")
                => "complete_report" \in jobs[j].logged
        /\ ("fail" \in failingCalls /\ jobs[j].fails = 1 /\ jobs[j].pc = "settled")
                => "fail_report" \in jobs[j].logged

\* C25: the calls made for a claimed job start with exactly one heartbeat,
\* issued when the job is taken; while that heartbeat is out nothing else has
\* been called, no timer started and nothing reported; and whether it
\* succeeds or fails, what follows is the dispatch by kind: the profile read
\* for a meal-plan job, the unknown-kind fail report for any other.
C25_HeartbeatFirst ==
    \A j \in JobIds :
        jobs[j].pc # "unclaimed" =>
            /\ jobs[j].trace # <<>>
            /\ jobs[j].trace[1] = "heartbeat"
            /\ \A i \in 2..Len(jobs[j].trace) : jobs[j].trace[i] # "heartbeat"
            /\ jobs[j].pc = "hb0" =>
                    /\ jobs[j].trace = <<"heartbeat">>
                    /\ jobs[j].stages = {}
                    /\ Reports(j) = 0
                    /\ ~jobs[j].hbTimer
            /\ jobs[j].pc # "hb0" =>
                    /\ Len(jobs[j].trace) >= 2
                    /\ jobs[j].kind = MealPlanKind => jobs[j].trace[2] = "profile"
                    /\ jobs[j].kind # MealPlanKind =>
                            /\ jobs[j].trace = <<"heartbeat", "fail">>
                            /\ jobs[j].cause = "Unknown job type: other_kind"

\* C25 witness: every heartbeat call of the run returns an error, and a
\* meal-plan job has settled as completed.
C25_Witness ==
    /\ "heartbeat" \in failingCalls
    /\ failMode = "error"
    /\ \E j \in JobIds :
        /\ jobs[j].pc = "settled"
        /\ jobs[j].completes = 1
        /\ jobs[j].fails = 0

\* C23: in every state the slot map holds exactly the jobs that were
\* dispatched and have not settled, so it does whenever the scheduler tests
\* it or issues a claim; a job enters the map in the step that dispatches it
\* and leaves it only in the step in which its own execution settles, after
\* a complete or a fail report, and every settlement removes it.
C23_SlotMapIsInFlightSet ==
    /\ [](activeJobs = {j \in JobIds : InFlight(j)})
    /\ [][\A j \in JobIds :
            /\ (j \notin activeJobs /\ j \in activeJobs') =>
                    /\ jobs[j].pc = "unclaimed"
                    /\ jobs'[j].pc = "hb0"
                    /\ schedPc = "claimWait"
                    /\ schedPc' = "sleep"
            /\ (j \in activeJobs /\ j \notin activeJobs') =>
                    /\ jobs[j].pc \in {"complete", "failing"}
                    /\ jobs'[j].pc = "settled"
                    /\ \A k \in JobIds \ {j} : (k \in activeJobs) = (k \in activeJobs')
            /\ (jobs[j].pc # "settled" /\ jobs'[j].pc = "settled") =>
                    j \in activeJobs /\ j \notin activeJobs']_vars

\* C23 witness: one job settled as failed and left the map while the other,
\* dispatched as well, is still in it.
C23_Witness ==
    /\ jobs[1].pc = "settled"
    /\ jobs[1].fails = 1
    /\ jobs[2].pc = "save"
    /\ activeJobs = {2}
    /\ schedPc = "check"

\* C24: the scheduler passes on a claim only when the slot map is full: a
\* running scheduler at its slot test with a free slot can issue a claim at
\* once, goes to sleep without claiming only with L jobs in flight, and,
\* with no job ever required to settle, a free slot leads to a further claim
\* (or to shutdown).
C24_SchedulerDoesNotWaitForJobs ==
    /\ []((schedPc = "check" /\ ~isShuttingDown /\ ~stopped
                /\ Cardinality(activeJobs) < maxConcurrentJobs)
            => ENABLED SchedIssueClaim)
    /\ [][(schedPc = "check" /\ schedPc' = "sleep") =>
            Cardinality(activeJobs) >= maxConcurrentJobs]_vars
    /\ (Cardinality(activeJobs) < maxConcurrentJobs /\ ~isShuttingDown)
            ~> (schedPc = "claimWait" \/ isShuttingDown
                    \/ Cardinality(activeJobs) >= maxConcurrentJobs)

\* C24 witness: L = 2 jobs are in flight at once, the second claimed while
\* the first had not moved past its first call.
C24_Witness ==
    /\ maxConcurrentJobs = 2
    /\ activeJobs = {1, 2}
    /\ jobs[1].pc = "hb0"
    /\ jobs[2].pc = "hb0"
    /\ ~isShuttingDown

\* The calls of a job that runs through, in the order they are made.
FullRun == <<"heartbeat", "profile", "history", "gen", "images", "cards", "save",
             "notify", "complete">>

IsPrefix(s, t) == Len(s) <= Len(t) /\ \A i \in 1..Len(s) : s[i] = t[i]

\* C26: the calls made for a job are, in this order, context fetch (profile,
\* history), plan generation, image enrichment, card generation, artifact
\* write, notification, complete report, cut short only by a fail report; the
\* call a job is waiting for is the last one started; and a complete report
\* was made only with the artifact write returned without error.
C26_StagesInOrder ==
    \A j \in JobIds :
        LET t == jobs[j].trace
            n == Len(t)
        IN  /\ \/ IsPrefix(t, FullRun)
                \/ /\ n >= 2
                   /\ t[n] = "fail"
                   /\ n - 1 < Len(FullRun)
                   /\ IsPrefix(SubSeq(t, 1, n - 1), FullRun)
            /\ jobs[j].pc \in {"profile", "history", "gen", "images", "cards", "save", "notify",
                                "complete"}
                    => t[n] = jobs[j].pc
            /\ jobs[j].pc = "failing" => t[n] = "fail"
            /\ (jobs[j].completes > 0 \/ (n > 0 /\ t[n] = "complete")) =>
                    /\ jobs[j].written
                    /\ jobs[j].saves = 1
                    /\ t = FullRun

\* C26 witness: with every degradable call failing, a job ran all its steps
\* and settled as completed.
C26_Witness ==
    /\ {"profile", "history", "images", "cards", "notify"} \subseteq failingCalls
    /\ \E j \in JobIds :
        /\ jobs[j].pc = "settled"
        /\ jobs[j].trace = FullRun
        /\ jobs[j].written

\* C27: a job's artifact write is issued at most once, only with a plan the
\* generation accepted and after images and cards; a job whose write
\* succeeded is reported completed and never failed; a job reported failed
\* for a generation error has no write.
C27_ArtifactWrittenOnce ==
    \A j \in JobIds :
        /\ jobs[j].saves <= 1
        /\ Cardinality({i \in 1..Len(jobs[j].trace) : jobs[j].trace[i] = "save"}) = jobs[j].saves
        /\ jobs[j].saves = 1 =>
                /\ jobs[j].gen = "days_array"
                /\ jobs[j].kind = "meal_plan_generation"
                /\ {"gen", "images", "cards"} \subseteq jobs[j].stages
        /\ jobs[j].written =>
                /\ jobs[j].saves = 1
                /\ jobs[j].fails = 0
                /\ jobs[j].pc \in {"notify", "complete", "settled"}
                /\ jobs[j].pc \in {"complete", "settled"} => jobs[j].completes = 1
        /\ (jobs[j].fails = 1 /\ jobs[j].gen \notin {"none", "days_array"}) =>
                jobs[j].saves = 0 /\ ~jobs[j].written

\* C27 witness: one job was reported failed for a generation error without a
\* write, the other wrote its artifact once and was reported completed.
C27_Witness ==
    /\ jobs[1].pc = "settled"
    /\ jobs[1].fails = 1
    /\ jobs[1].gen = "no_days"
    /\ jobs[1].saves = 0
    /\ jobs[2].pc = "settled"
    /\ jobs[2].saves = 1
    /\ jobs[2].written
    /\ jobs[2].completes = 1

\* The calls of a settled job as its inputs alone determine them: the kind,
\* the provider's answer and whether the artifact write succeeded.
RunFor(rec) ==
    IF rec.kind # "meal_plan_generation" THEN <<"heartbeat", "fail">>
    ELSE IF rec.gen \notin {"days_array", "null_meal"}
        THEN <<"heartbeat", "profile", "history", "gen", "fail">>
    ELSE IF rec.gen = "null_meal"
        THEN <<"heartbeat", "profile", "history", "gen", "images", "fail">>
    ELSE IF ~rec.written
        THEN <<"heartbeat", "profile", "history", "gen", "images", "cards", "save", "fail">>
    ELSE FullRun

\* C28: the signal leaves every job and the slot map as they are; a job in
\* flight can take its next step whether or not the worker is shutting down,
\* as long as the process has not exited; and a settled job made the calls
\* and the one report that its inputs determine, signal or not.
C28_SignalLeavesPipelinesAlone ==
    /\ [][isShuttingDown' # isShuttingDown =>
            jobs' = jobs /\ activeJobs' = activeJobs]_vars
    /\ [](\A j \in JobIds : (InFlight(j) /\ ~stopped) => ENABLED Pipeline(j))
    /\ [](\A j \in JobIds : jobs[j].pc = "settled" =>
            /\ jobs[j].trace = RunFor(jobs[j])
            /\ Reports(j) = 1
            /\ jobs[j].completes = (IF jobs[j].written THEN 1 ELSE 0))

\* C28 witness: the signal found job 1 in flight (the drain loop went to
\* sleep and woke once with the job still running); the job then ran through
\* and was reported completed before the timeout.
C28_Witness ==
    /\ isShuttingDown
    /\ ~stopped
    /\ drainPc = "sleeping"
    /\ drainElapsed = DrainPollMs
    /\ jobs[2].pc = "unclaimed"
    /\ jobs[1].pc = "settled"
    /\ jobs[1].trace = FullRun
    /\ jobs[1].completes = 1

\* C29 (as claimed): in every post-processed days array, the day at a
\* position within the week carries the week's date of that position and
\* the derived target of that date, and a day past the week is the
\* provider's.
C29_DaysOverwrittenByPosition ==
    \A p \in PlanIds : \A k \in 1..Len(processedDays[p]) :
        LET run == calJobs[p].runs[k]
            days == processedDays[p][k]
        IN  /\ Len(days) = Len(aiDays)
            /\ \A i \in 1..Len(days) :
                IF i <= 7
                THEN /\ days[i].date = run.today + i - 1
                     /\ days[i].daily_calorie_target = run.map[run.today + i - 1]
                ELSE days[i] = aiDays[i]

\* C30 (as claimed): no image search is made for a cheat-day placeholder
\* meal, and its image is the fixed celebratory fallback, with or without a
\* credential and whatever the search came back with.
C30_CheatDayFixedImage ==
    \A p \in PlanIds : \A i \in 1..Len(plans[p].meals) :
        plans[p].meals[i].type = "Cheat Day" =>
            /\ ~plans[p].meals[i].searched
            /\ plans[p].meals[i].image = "default_dinner"

\* C31 (as claimed): the process does not exit with a claim call still in
\* flight unless the drain timeout has elapsed, so that a job the call
\* returns is dispatched, registered and waited for.
C31_InFlightClaimNotLost ==
    (stopped /\ schedPc = "claimWait") => drainElapsed >= ShutdownTimeoutMs

\* C32 (as claimed): the interval's callback issues no heartbeat for a job
\* whose complete or fail report has been issued: none while the report is
\* in flight, none after it returned.
C32_NoHeartbeatAfterReport ==
    \A j \in JobIds : jobs[j].lastBeat \notin {"complete", "failing", "settled"}

\* C33: when jobs never overlap, the used-images set is empty when a job
\* starts and holds exactly the job's own URLs while it runs; every meal gets
\* the image it would get if no other job had ever run, so no URL of an
\* earlier job makes a meal fall back; and the search-resolved URLs of one
\* job are pairwise distinct.
C33_SerialJobsStartClean ==
    /\ [][\A p \in PlanIds :
            (plans[p].ipc = "idle" /\ plans'[p].ipc = "images") =>
                usedImageUrls' = {}]_vars
    /\ [](\A p \in PlanIds :
            /\ plans[p].ipc = "images" =>
                    usedImageUrls = {plans[p].meals[a].image : a \in 1..Len(plans[p].meals)}
                                        \cap Urls
            /\ \A a \in 1..Len(plans[p].meals) :
                    /\ plans[p].meals[a].image = plans[p].meals[a].alone
                    /\ \A b \in 1..Len(plans[p].meals) :
                            (a # b /\ plans[p].meals[a].image \in Urls)
                                => plans[p].meals[a].image # plans[p].meals[b].image)

\* C33 witness: the first job finished with both its meals on searched URLs;
\* the second job, run after it, was given the same two URLs.
C33_Witness ==
    /\ plans[1].ipc = "done"
    /\ plans[2].ipc = "done"
    /\ plans[1].meals = <<[type |-> "Breakfast", image |-> "u1", searched |-> TRUE, alone |-> "u1"],
                          [type |-> "Dinner", image |-> "u2", searched |-> TRUE, alone |-> "u2"]>>
    /\ Len(plans[2].meals) = 2
    /\ plans[2].meals[1].image = "u1"
    /\ plans[2].meals[2].image = "u2"
    /\ usedImageUrls = {"u1", "u2"}

\* A cheat-day list whose dates are distinct and all within the week that
\* starts on day t.
DistinctDatesInWeek(cheatDays, t) ==
    /\ \A i, k \in 1..Len(cheatDays) : cheatDays[i].date = cheatDays[k].date => i = k
    /\ \A i \in 1..Len(cheatDays) : cheatDays[i].date \in WeekDates(t)

\* C34 (as claimed, for cheat-day lists with distinct dates within the week):
\* in every derived map a cheat-day date carries exactly its override, an
\* override of 0 included, and every other date of the week a strictly
\* positive target, also when the overrides add up to more than seven times
\* the baseline goal.
C34_PositiveTargetsExactOverrides ==
    \A p \in PlanIds : \A r \in 1..Len(calJobs[p].runs) :
        LET cheatDays == calJobs[p].cheatDays
            run == calJobs[p].runs[r]
        IN  DistinctDatesInWeek(cheatDays, run.today) =>
                /\ \A i \in 1..Len(cheatDays) :
                        run.map[cheatDays[i].date] = cheatDays[i].calories
                /\ \A d \in WeekDates(run.today) :
                        (\A i \in 1..Len(cheatDays) : cheatDays[i].date # d) => run.map[d] > 0


=============================================================================
